---- MODULE Spec2Model ----
(***************************************************************************)
(* Channel configuration of conda/config.py: the specifier expander        *)
(* (normalize_urls), the priority assigner (prioritize_channels), the      *)
(* canonical name resolver (canonical_channel_name), the token codec       *)
(* (BINSTAR_TOKEN_PAT, remove/hide_binstar_tokens), the alias resolver     *)
(* (binstar_channel_alias), the policy gate (get_allowed_channels) and the *)
(* local-channel cache (local_channel, get_local_urls).                    *)
(*                                                                         *)
(* A Python string is a sequence of one-character strings, so that         *)
(* rstrip, startswith, split, rsplit and the regular expression are        *)
(* computed character by character.  Python's None is the value None.      *)
(***************************************************************************)
EXTENDS Integers, Sequences, FiniteSets, TLC

\* ----- Python values -----

None == <<"<None>">>

\* ----- literals of the source -----

S_system == <<"s","y","s","t","e","m">>
S_defaults == <<"d","e","f","a","u","l","t","s">>
S_default == <<"d","e","f","a","u","l","t">>
S_local == <<"l","o","c","a","l">>
S_noarch == <<"n","o","a","r","c","h">>
S_unknown == <<"<","u","n","k","n","o","w","n",">">>
S_file_scheme_slash == <<"f","i","l","e",":","/">>
S_file_scheme == <<"f","i","l","e",":">>
S_filer == <<"h","t","t","p",":","/","/","f","i","l","e","r","/">>
S_http_slash == <<"h","t","t","p",":","/">>
S_https == <<"h","t","t","p","s">>
S_binstar_org == <<"b","i","n","s","t","a","r",".","o","r","g">>
S_anaconda_org == <<"a","n","a","c","o","n","d","a",".","o","r","g">>
S_api == <<"a","p","i">>
S_conda == <<"c","o","n","d","a">>
S_t_slash == <<"t","/">>
S_TOKEN_repl == <<"t","/","<","T","O","K","E","N",">","/">>
DEFAULT_CHANNEL_ALIAS == <<"h","t","t","p","s",":","/","/","c","o","n","d","a",".","a","n","a","c","o","n","d","a",".","o","r","g","/">>
DEFAULT_URLS == <<<<"h","t","t","p","s",":","/","/","r","e","p","o",".","c","o","n","t","i","n","u","u","m",".","i","o","/","p","k","g","s","/","f","r","e","e">>, <<"h","t","t","p","s",":","/","/","r","e","p","o",".","c","o","n","t","i","n","u","u","m",".","i","o","/","p","k","g","s","/","p","r","o">>>>

\* ----- str methods -----

RECURSIVE rstrip(_, _)
rstrip(s, c) ==
  IF Len(s) > 0 /\ s[Len(s)] = c THEN rstrip(SubSeq(s, 1, Len(s) - 1), c) ELSE s

StartsAt(s, i, p) ==
  i + Len(p) - 1 <= Len(s) /\ \A k \in 1..Len(p) : s[i + k - 1] = p[k]

startswith(s, p) == StartsAt(s, 1, p)

\* s.find(p): the 1-based index of the first occurrence of p in s, 0 when none
RECURSIVE FindFrom(_, _, _)
FindFrom(s, p, i) ==
  IF i + Len(p) - 1 > Len(s) THEN 0
  ELSE IF StartsAt(s, i, p) THEN i
  ELSE FindFrom(s, p, i + 1)

find(s, p) == FindFrom(s, p, 1)

\* s.split(p, 1)[1], for s that holds p
split1_tail(s, p) == SubSeq(s, find(s, p) + Len(p), Len(s))

\* s.replace(old, new)
RECURSIVE replace(_, _, _)
replace(s, old, new) ==
  LET i == find(s, old)
  IN IF i = 0 THEN s
     ELSE SubSeq(s, 1, i - 1) \o new \o replace(SubSeq(s, i + Len(old), Len(s)), old, new)

\* the index of the last c in s[1..i], 0 when none
RECURSIVE LastIndex(_, _, _)
LastIndex(s, c, i) ==
  IF i = 0 THEN 0 ELSE IF s[i] = c THEN i ELSE LastIndex(s, c, i - 1)

\* s.rsplit('/', 2)[0]
rsplit2_head(s) ==
  LET j1 == LastIndex(s, "/", Len(s))
      j2 == IF j1 = 0 THEN 0 ELSE LastIndex(s, "/", j1 - 1)
  IN IF j1 = 0 THEN s
     ELSE IF j2 = 0 THEN SubSeq(s, 1, j1 - 1)
     ELSE SubSeq(s, 1, j2 - 1)

\* ----- urlparse.urlparse(url).scheme != "" -----

Digits == {"0","1","2","3","4","5","6","7","8","9"}
Lower == {"a","b","c","d","e","f","g","h","i","j","k","l","m","n","o","p","q","r","s","t","u","v","w","x","y","z"}
Upper == {"A","B","C","D","E","F","G","H","I","J","K","L","M","N","O","P","Q","R","S","T","U","V","W","X","Y","Z"}
SchemeChars == Lower \cup Upper \cup Digits \cup {"+", "-", "."}

is_url(url) ==
  LET i == find(url, <<":">>)
  IN /\ i > 1
     /\ \/ SubSeq(url, 1, i - 1) = <<"h","t","t","p">>
        \/ /\ \A k \in 1..(i - 1) : url[k] \in SchemeChars
           /\ \/ i = Len(url)
              \/ \E k \in (i + 1)..Len(url) : url[k] \notin Digits

\* ----- BINSTAR_TOKEN_PAT -----
\* ((:?ALIAS|binstar\.org|anaconda\.org)/?)(t/[0-9a-zA-Z\-<>]{4,})/
\* A compiled pattern is the literal ALIAS it was compiled with.

TokenChars == Digits \cup Lower \cup Upper \cup {"-", "<", ">"}
MinTokenLen == 4

RECURSIVE TokenRun(_, _)
TokenRun(s, j) ==
  IF j <= Len(s) /\ s[j] \in TokenChars THEN 1 + TokenRun(s, j + 1) ELSE 0

\* (t/[0-9a-zA-Z\-<>]{4,})/ at j: the index of the closing '/', 0 when no match
TokenTail(s, j) ==
  IF StartsAt(s, j, S_t_slash)
  THEN LET n == TokenRun(s, j + 2)
       IN IF n >= MinTokenLen /\ j + 2 + n <= Len(s) /\ s[j + 2 + n] = "/"
          THEN j + 2 + n ELSE 0
  ELSE 0

NoMatch == [end |-> 0, g1end |-> 0]

\* /?(t/...)/ at j, the optional '/' tried first
AfterHost(s, j) ==
  LET e1 == TokenTail(s, j + 1)
      e0 == TokenTail(s, j)
  IN IF j <= Len(s) /\ s[j] = "/" /\ e1 # 0 THEN [end |-> e1, g1end |-> j]
     ELSE IF e0 # 0 THEN [end |-> e0, g1end |-> j - 1]
     ELSE NoMatch

HostAlternatives(pat) == <<pat, S_binstar_org, S_anaconda_org>>

RECURSIVE TryAlternatives(_, _, _, _)
TryAlternatives(s, j, pat, k) ==
  IF k > 3 THEN NoMatch
  ELSE LET alt == HostAlternatives(pat)[k]
           m == AfterHost(s, j + Len(alt))
       IN IF StartsAt(s, j, alt) /\ m.end # 0 THEN m
          ELSE TryAlternatives(s, j, pat, k + 1)

\* a match of the pattern starting at i; ':?' takes the colon first
MatchAt(s, i, pat) ==
  LET m == TryAlternatives(s, i + 1, pat, 1)
  IN IF s[i] = ":" /\ m.end # 0 THEN m ELSE TryAlternatives(s, i, pat, 1)

\* BINSTAR_TOKEN_PAT.sub(r'\1' + suffix, s)
RECURSIVE PatSub(_, _, _, _)
PatSub(s, i, pat, suffix) ==
  IF i > Len(s) THEN <<>>
  ELSE LET m == MatchAt(s, i, pat)
       IN IF m.end # 0
          THEN SubSeq(s, i, m.g1end) \o suffix \o PatSub(s, m.end + 1, pat, suffix)
          ELSE <<s[i]>> \o PatSub(s, i + 1, pat, suffix)

\* (the subject and the pattern are bound to their values once, as the call does)
remove_binstar_tokens_with(pat, url) ==
  CHOOSE r \in {PatSub(s, 1, p, <<>>) : s \in {url}, p \in {pat}} : TRUE

hide_binstar_tokens_with(pat, url) ==
  CHOOSE r \in {PatSub(s, 1, p, S_TOKEN_repl) : s \in {url}, p \in {pat}} : TRUE

\* ----- the settings mapping (a parsed .condarc) -----
\* has_k: the key k is in the mapping; isNone: the global rc before load_condarc

EmptyRc ==
  [isNone |-> FALSE,
   has_channels |-> FALSE, channels |-> <<>>,
   has_channel_alias |-> FALSE, channel_alias |-> <<>>,
   has_add_anaconda_token |-> FALSE, add_anaconda_token |-> FALSE,
   has_add_binstar_token |-> FALSE, add_binstar_token |-> FALSE,
   has_allow_other_channels |-> FALSE, allow_other_channels |-> FALSE,
   has_default_channels |-> FALSE, default_channels |-> <<>>]

NoneRc == [EmptyRc EXCEPT !.isNone = TRUE]

ADD_BINSTAR_TOKEN == TRUE

\* ----- the process environment -----

subdir == <<"l","i","n","u","x","-","6","4">>
croot_url == <<"f","i","l","e",":","/","/","/","b","l","d">>

VARIABLES
  env,               \* CONDARC, the two settings files, conda_build and binstar_client
  croot_exists,      \* os.path.exists(croot)
  pc,                \* position in the module's top-level code
  rc_path,           \* "None", "condarc", "user" or "sys"
  sys_rc,
  rc,
  channel_alias,
  BINSTAR_TOKEN_PAT,
  local_channel,
  allowed_channels,
  in_urls,           \* argument lists of the calls
  in_channel,
  call               \* the last call: its arguments, result and effects

vars == <<env, croot_exists, pc, rc_path, sys_rc, rc, channel_alias, BINSTAR_TOKEN_PAT,
          local_channel, allowed_channels, in_urls, in_channel, call>>

\* ----- rc file -----

get_rc_path(e) ==
  IF e.CONDARC = "blank" THEN "None"
  ELSE IF e.CONDARC = "path" THEN "condarc"
  ELSE IF e.user_isfile THEN "user"
  ELSE IF e.sys_isfile THEN "sys"
  ELSE "None"

\* CONDARC, when it names a file, names the user's file
load_condarc_(e, path) ==
  IF path = "None" THEN EmptyRc
  ELSE IF path = "sys" THEN (IF e.sys_isfile THEN e.sys_file ELSE EmptyRc)
  ELSE (IF e.user_isfile THEN e.user_file ELSE EmptyRc)

\* ----- channels -----

\* the local-channel cache and the number of exists(croot) calls, threaded
\* through the functions that reach get_local_urls
\* (L.lc), with whether fetch_index.cache was reset (L.cleared)
\* a get_local_urls that looks for the build directory on every call
get_local_urls_rediscovering(L, clear_cache) ==
  LET C == [L EXCEPT !.cleared = @ \/ clear_cache]
  IN IF ~env.conda_build THEN C
     ELSE [C EXCEPT !.lc = IF croot_exists THEN Append(@, croot_url) ELSE @,
                    !.checks = @ + 1]

get_local_urls(L, clear_cache) ==
  LET C == [L EXCEPT !.cleared = @ \/ clear_cache]
  IN IF C.lc # <<>> THEN C
     ELSE IF ~env.conda_build THEN C
     ELSE [C EXCEPT !.lc = IF croot_exists THEN Append(@, croot_url) ELSE @,
                    !.checks = @ + 1]

get_default_urls ==
  IF sys_rc.has_default_channels THEN sys_rc.default_channels ELSE DEFAULT_URLS

InList(x, lst) == \E i \in 1..Len(lst) : lst[i] = x

get_rc_urls ==
  IF rc.isNone THEN [exc |-> "AttributeError", val |-> <<>>]
  ELSE IF ~rc.has_channels THEN [exc |-> "", val |-> <<>>]
  ELSE IF InList(S_system, rc.channels) THEN [exc |-> "RuntimeError", val |-> <<>>]
  ELSE [exc |-> "", val |-> rc.channels]

add_token_setting ==
  IF rc.has_add_anaconda_token THEN rc.add_anaconda_token
  ELSE IF rc.has_add_binstar_token THEN rc.add_binstar_token
  ELSE ADD_BINSTAR_TOKEN

bs_domain == rstrip(replace(env.binstar.domain, S_api, S_conda), "/") \o <<"/">>

\* a binstar_channel_alias that catches ImportError only
binstar_channel_alias_import_only(alias) ==
  IF alias = None THEN [exc |-> "AttributeError", val |-> None, queried |-> FALSE]
  ELSE IF startswith(alias, S_file_scheme_slash)
  THEN [exc |-> "", val |-> alias, queried |-> FALSE]
  ELSE IF rc.isNone THEN [exc |-> "AttributeError", val |-> None, queried |-> FALSE]
  ELSE IF ~add_token_setting THEN [exc |-> "", val |-> alias, queried |-> FALSE]
  ELSE IF env.binstar.state = "not_installed"
  THEN [exc |-> "", val |-> alias, queried |-> TRUE]
  ELSE IF env.binstar.state = "raises"
  THEN [exc |-> "Exception", val |-> None, queried |-> TRUE]
  ELSE IF startswith(alias, bs_domain) /\ env.binstar.token # None /\ env.binstar.token # <<>>
  THEN [exc |-> "", val |-> alias \o S_t_slash \o env.binstar.token \o <<"/">>, queried |-> TRUE]
  ELSE [exc |-> "", val |-> alias, queried |-> TRUE]

\* queried: the try block (the import of binstar_client) was entered
binstar_channel_alias(alias) ==
  IF alias = None THEN [exc |-> "AttributeError", val |-> None, queried |-> FALSE]
  ELSE IF startswith(alias, S_file_scheme_slash)
  THEN [exc |-> "", val |-> alias, queried |-> FALSE]
  ELSE IF rc.isNone THEN [exc |-> "AttributeError", val |-> None, queried |-> FALSE]
  ELSE IF ~add_token_setting THEN [exc |-> "", val |-> alias, queried |-> FALSE]
  ELSE IF env.binstar.state = "not_installed"
  THEN [exc |-> "", val |-> alias, queried |-> TRUE]
  ELSE IF env.binstar.state = "raises"
  THEN [exc |-> "", val |-> alias, queried |-> TRUE]
  ELSE IF startswith(alias, bs_domain) /\ env.binstar.token # None /\ env.binstar.token # <<>>
  THEN [exc |-> "", val |-> alias \o S_t_slash \o env.binstar.token \o <<"/">>, queried |-> TRUE]
  ELSE [exc |-> "", val |-> alias, queried |-> TRUE]

hide_binstar_tokens(url) == hide_binstar_tokens_with(BINSTAR_TOKEN_PAT, url)

remove_binstar_tokens(url) == remove_binstar_tokens_with(BINSTAR_TOKEN_PAT, url)

\* ----- canonical_channel_name -----

RecursionLimit == 3

AnyPrefix(ch, lst) == \E i \in 1..Len(lst) : startswith(ch, lst[i])

\* a scheme flip that puts "http" back
https_variant_same_scheme(channel) == SubSeq(channel, 1, 4) \o SubSeq(channel, 5, Len(channel))

https_variant(channel) == S_https \o SubSeq(channel, 5, Len(channel))

RECURSIVE canonical_channel_name(_, _, _)

\* lines 279-292, for the channel already stripped of tokens and trailing slashes
canonical_branches(ch, L, depth) ==
  IF AnyPrefix(ch, get_default_urls)
  THEN [exc |-> "", val |-> S_defaults, L |-> L, depth |-> depth]
  ELSE
    LET G == get_local_urls(L, FALSE)
    IN IF AnyPrefix(ch, G.lc)
       THEN [exc |-> "", val |-> S_local, L |-> G, depth |-> depth]
       ELSE IF startswith(ch, S_filer)
       THEN [exc |-> "", val |-> <<"f","i","l","e","r">>, L |-> G, depth |-> depth]
       ELSE IF startswith(ch, channel_alias)
       THEN [exc |-> "", val |-> split1_tail(ch, channel_alias), L |-> G, depth |-> depth]
       ELSE IF startswith(ch, S_http_slash)
       THEN IF depth >= RecursionLimit
            THEN [exc |-> "RecursionError", val |-> None, L |-> G, depth |-> depth]
            ELSE LET channel2 == https_variant(ch)
                 IN CHOOSE channel3 \in
                      {IF r.exc # "" THEN r
                       ELSE [r EXCEPT !.val = IF r.val # channel2 THEN r.val ELSE ch] :
                         r \in {canonical_channel_name(channel2, G, depth + 1)}} : TRUE
       ELSE [exc |-> "", val |-> ch, L |-> G, depth |-> depth]

canonical_channel_name(channel, L, depth) ==
  IF channel = None THEN [exc |-> "", val |-> S_unknown, L |-> L, depth |-> depth]
  ELSE CHOOSE res \in
         {canonical_branches(ch, L, depth) :
            ch \in {rstrip(remove_binstar_tokens(channel), "/")}} : TRUE

url_channel(url, L) ==
  IF url = None THEN [channel |-> None, schannel |-> S_unknown, L |-> L]
  ELSE LET r == canonical_channel_name(rsplit2_head(url), L, 0)
       IN [channel |-> rsplit2_head(url), schannel |-> r.val, L |-> r.L]

\* ----- prioritize_channels -----
\* the OrderedDict is the sequence of its items in insertion order

HasKey(tab, k) == \E i \in 1..Len(tab) : tab[i].key = k

FirstPriority == 0

\* a step that does not count the first label as a change
prioritize_step_first_unchanged(st, raw) ==
  LET channel == rstrip(raw, "/") \o <<"/">>
  IN IF HasKey(st.tab, channel) THEN st
     ELSE LET r == canonical_channel_name(rsplit2_head(channel), st.L, 0)
              priority == st.priority
                          + (IF r.val # st.lastchan /\ st.lastchan # None THEN 1 ELSE 0)
          IN [tab |-> Append(st.tab, [key |-> channel, label |-> r.val, priority |-> priority]),
              lastchan |-> r.val, priority |-> priority, L |-> r.L]

\* a step that gives every new entry a new tier
prioritize_step_always_increments(st, raw) ==
  LET channel == rstrip(raw, "/") \o <<"/">>
  IN IF HasKey(st.tab, channel) THEN st
     ELSE LET r == canonical_channel_name(rsplit2_head(channel), st.L, 0)
              priority == st.priority + 1
          IN [tab |-> Append(st.tab, [key |-> channel, label |-> r.val, priority |-> priority]),
              lastchan |-> r.val, priority |-> priority, L |-> r.L]

prioritize_step(st, raw) ==
  LET channel == rstrip(raw, "/") \o <<"/">>
  IN IF HasKey(st.tab, channel) THEN st
     ELSE LET r == canonical_channel_name(rsplit2_head(channel), st.L, 0)
              priority == st.priority + (IF r.val # st.lastchan THEN 1 ELSE 0)
          IN [tab |-> Append(st.tab, [key |-> channel, label |-> r.val, priority |-> priority]),
              lastchan |-> r.val, priority |-> priority, L |-> r.L]

RECURSIVE prioritize_loop(_, _, _)
prioritize_loop(channels, i, st) ==
  IF i > Len(channels) THEN st
  ELSE prioritize_loop(channels, i + 1, prioritize_step(st, channels[i]))

prioritize_channels(channels, L) ==
  prioritize_loop(channels, 1,
                  [tab |-> <<>>, lastchan |-> None, priority |-> FirstPriority, L |-> L])

\* ----- normalize_urls -----

slash_terminated(lst) == [i \in 1..Len(lst) |-> rstrip(lst[i], "/") \o <<"/">>]

platform_or_subdir(platform) ==
  IF platform = None \/ platform = <<>> THEN subdir ELSE platform

\* a loop body that emits the noarch URL before the platform URL
expand_base_noarch_first(st, raw, platform, offline_only) ==
  LET u == rstrip(raw, "/")
      bare == ~is_url(u)
      a == IF bare /\ st.alias = None
           THEN binstar_channel_alias(channel_alias)
           ELSE [exc |-> "", val |-> st.alias, queried |-> FALSE]
  IN IF a.exc # "" THEN [st EXCEPT !.exc = a.exc]
     ELSE LET url0 == IF bare THEN a.val \o u ELSE u
              st1 == [st EXCEPT !.alias = a.val]
          IN IF offline_only /\ ~startswith(url0, S_file_scheme) THEN st1
             ELSE [st1 EXCEPT !.newurls =
                     @ \o <<url0 \o <<"/">> \o S_noarch \o <<"/">>,
                            url0 \o <<"/">> \o platform_or_subdir(platform) \o <<"/">> >>]

\* the body of "for url0 in t_urls"; st.alias is the local variable alias
expand_base(st, raw, platform, offline_only) ==
  LET u == rstrip(raw, "/")
      bare == ~is_url(u)
      a == IF bare /\ st.alias = None
           THEN binstar_channel_alias(channel_alias)
           ELSE [exc |-> "", val |-> st.alias, queried |-> FALSE]
  IN IF a.exc # "" THEN [st EXCEPT !.exc = a.exc]
     ELSE LET url0 == IF bare THEN a.val \o u ELSE u
              st1 == [st EXCEPT !.alias = a.val]
          IN IF offline_only /\ ~startswith(url0, S_file_scheme) THEN st1
             ELSE [st1 EXCEPT !.newurls =
                     @ \o <<url0 \o <<"/">> \o platform_or_subdir(platform) \o <<"/">>,
                            url0 \o <<"/">> \o S_noarch \o <<"/">> >>]

RECURSIVE expand_bases(_, _, _, _, _)
expand_bases(t_urls, i, st, platform, offline_only) ==
  IF i > Len(t_urls) \/ st.exc # "" THEN st
  ELSE expand_bases(t_urls, i + 1, expand_base(st, t_urls[i], platform, offline_only),
                    platform, offline_only)

\* the specifier at the front of the queue, when it is not replaced in the queue
specifier_urls(url, L) ==
  IF url = S_defaults \/ url = S_system
  THEN [urls |-> slash_terminated(get_default_urls), L |-> L]
  ELSE IF url = S_local
  THEN LET G == get_local_urls(L, TRUE) IN [urls |-> G.lc, L |-> G]
  ELSE [urls |-> <<url>>, L |-> L]

RECURSIVE normalize_loop(_, _, _, _)
\* a loop that puts the settings-file channels at the end of the queue
normalize_loop_appending(urls, st, platform, offline_only) ==
  IF urls = <<>> \/ st.exc # "" THEN st
  ELSE IF Head(urls) = S_system /\ rc_path # "None"
  THEN LET r == get_rc_urls
       IN IF r.exc # "" THEN [st EXCEPT !.exc = r.exc]
          ELSE normalize_loop(Tail(urls) \o r.val, st, platform, offline_only)
  ELSE LET t == specifier_urls(Head(urls), st.L)
       IN normalize_loop(Tail(urls),
                         expand_bases(t.urls, 1, [st EXCEPT !.L = t.L], platform, offline_only),
                         platform, offline_only)

normalize_loop(urls, st, platform, offline_only) ==
  IF urls = <<>> \/ st.exc # "" THEN st
  ELSE IF Head(urls) = S_system /\ rc_path # "None"
  THEN LET r == get_rc_urls
       IN IF r.exc # "" THEN [st EXCEPT !.exc = r.exc]
          ELSE normalize_loop(r.val \o Tail(urls), st, platform, offline_only)
  ELSE LET t == specifier_urls(Head(urls), st.L)
       IN normalize_loop(Tail(urls),
                         expand_bases(t.urls, 1, [st EXCEPT !.L = t.L], platform, offline_only),
                         platform, offline_only)

normalize_urls(urls, platform, offline_only, L) ==
  normalize_loop(urls, [newurls |-> <<>>, alias |-> None, L |-> L, exc |-> ""],
                 platform, offline_only)

get_channel_urls(platform, offline, L) ==
  normalize_urls(IF rc.has_channels THEN <<S_system>> ELSE <<S_defaults>>, platform, offline, L)

\* ----- allowed channels -----

allow_other_channels == 
  IF sys_rc.has_allow_other_channels THEN sys_rc.allow_other_channels ELSE TRUE

policy_base_urls == IF sys_rc.has_channels THEN <<S_system>> ELSE <<S_default>>

get_allowed_channels(L) ==
  IF ~env.sys_isfile THEN [isNone |-> TRUE, val |-> <<>>, exc |-> "", L |-> L]
  ELSE IF allow_other_channels THEN [isNone |-> TRUE, val |-> <<>>, exc |-> "", L |-> L]
  ELSE LET r == normalize_urls(policy_base_urls, None, FALSE, L)
       IN [isNone |-> FALSE, val |-> r.newurls, exc |-> r.exc, L |-> r.L]

\* ----- load_condarc: the channel alias and the token pattern -----

configured_alias(r) ==
  IF ~allow_other_channels /\ sys_rc.has_channel_alias THEN sys_rc.channel_alias
  ELSE IF r.has_channel_alias THEN r.channel_alias
  ELSE DEFAULT_CHANNEL_ALIAS

compiled_pattern(r) == rstrip(configured_alias(r), "/")

stored_alias(r) ==
  remove_binstar_tokens_with(compiled_pattern(r), rstrip(configured_alias(r), "/") \o <<"/">>)

load_condarc(path) ==
  LET r == load_condarc_(env, path)
  IN [rc |-> r, BINSTAR_TOKEN_PAT |-> compiled_pattern(r), channel_alias |-> stored_alias(r)]

\* ----- the module's top-level code and the calls of its functions -----

NoCall ==
  [op |-> "none", urls |-> <<>>, str |-> <<>>, platform |-> None, flag |-> FALSE,
   exc |-> "", list |-> <<>>, val |-> <<>>, tab |-> <<>>, isNone |-> FALSE,
   checks |-> 0, cleared |-> FALSE, depth |-> 0,
   queried |-> FALSE]

NoAllowed == [isNone |-> TRUE, val |-> <<>>]

L0 == [lc |-> local_channel, checks |-> 0, cleared |-> FALSE]

\* the record of a call that ended with cache state L
Record(op, L) == [NoCall EXCEPT !.op = op, !.checks = L.checks, !.cleared = L.cleared]

\* lines 102-126: the globals before the first call of the module
InitWith(Envs, UrlLists, Channels) ==
  /\ env \in Envs
  /\ croot_exists = FALSE
  /\ in_urls \in UrlLists
  /\ in_channel \in Channels
  /\ pc = "line314"
  /\ rc_path = get_rc_path(env)
  /\ sys_rc = (IF env.sys_isfile THEN env.sys_file ELSE EmptyRc)
  /\ rc = NoneRc
  /\ channel_alias = None
  /\ BINSTAR_TOKEN_PAT = None
  /\ local_channel = <<>>
  /\ allowed_channels = NoAllowed
  /\ call = NoCall

\* line 314: allowed_channels = get_allowed_channels()
ImportAllowedChannels ==
  /\ pc = "line314"
  /\ LET r == get_allowed_channels(L0)
     IN /\ pc' = IF r.exc # "" THEN "import_error" ELSE "line405"
        /\ allowed_channels' = IF r.exc # "" THEN allowed_channels
                               ELSE [isNone |-> r.isNone, val |-> r.val]
        /\ local_channel' = r.L.lc
        /\ call' = [Record("get_allowed_channels", r.L) EXCEPT
                      !.exc = r.exc, !.isNone = r.isNone, !.list = r.val]
  /\ UNCHANGED <<env, croot_exists, rc_path, sys_rc, rc, channel_alias, BINSTAR_TOKEN_PAT,
                 in_urls, in_channel>>

\* line 405: load_condarc(rc_path)
ImportLoadCondarc ==
  /\ pc = "line405"
  /\ pc' = "ready"
  /\ LET g == load_condarc(rc_path)
     IN /\ rc' = g.rc
        /\ BINSTAR_TOKEN_PAT' = g.BINSTAR_TOKEN_PAT
        /\ channel_alias' = g.channel_alias
        /\ call' = [Record("load_condarc", L0) EXCEPT !.val = g.channel_alias]
  /\ UNCHANGED <<env, croot_exists, rc_path, sys_rc, local_channel, allowed_channels,
                 in_urls, in_channel>>

Config == <<env, pc, rc_path, sys_rc, rc, channel_alias, BINSTAR_TOKEN_PAT,
            allowed_channels, in_urls, in_channel>>

GetLocalUrls ==
  /\ pc = "ready"
  /\ \E clear_cache \in BOOLEAN :
       LET r == get_local_urls(L0, clear_cache)
       IN /\ local_channel' = r.lc
          /\ call' = [Record("get_local_urls", r) EXCEPT !.flag = clear_cache, !.list = r.lc]
  /\ UNCHANGED <<Config, croot_exists>>

Platforms == {None, <<"w","i","n","-","3","2">>}

NormalizeUrls ==
  /\ pc = "ready"
  /\ \E platform \in Platforms, offline_only \in BOOLEAN :
       LET r == normalize_urls(in_urls, platform, offline_only, L0)
       IN /\ local_channel' = r.L.lc
          /\ call' = [Record("normalize_urls", r.L) EXCEPT
                        !.urls = in_urls, !.platform = platform, !.flag = offline_only,
                        !.exc = r.exc, !.list = r.newurls]
  /\ UNCHANGED <<Config, croot_exists>>

\* the channels given: the argument list, or the URLs the last normalize_urls returned
PrioritizeChannels ==
  /\ pc = "ready"
  /\ \E channels \in {in_urls} \cup
                     (IF call.op = "normalize_urls" /\ call.exc = "" THEN {call.list} ELSE {}) :
       LET r == prioritize_channels(channels, L0)
       IN /\ local_channel' = r.L.lc
          /\ call' = [Record("prioritize_channels", r.L) EXCEPT !.urls = channels, !.tab = r.tab]
  /\ UNCHANGED <<Config, croot_exists>>

CanonicalChannelName ==
  /\ pc = "ready"
  /\ LET r == canonical_channel_name(in_channel, L0, 0)
     IN /\ local_channel' = r.L.lc
        /\ call' = [Record("canonical_channel_name", r.L) EXCEPT
                      !.str = in_channel, !.exc = r.exc, !.val = r.val, !.depth = r.depth]
  /\ UNCHANGED <<Config, croot_exists>>

BinstarChannelAlias ==
  /\ pc = "ready"
  /\ LET r == binstar_channel_alias(channel_alias)
     IN call' = [Record("binstar_channel_alias", L0) EXCEPT
                   !.str = channel_alias, !.exc = r.exc, !.val = r.val, !.queried = r.queried]
  /\ UNCHANGED <<Config, croot_exists, local_channel>>

\* the URL given: the argument, or the alias the last binstar_channel_alias returned
TokenUrls ==
  ({in_channel} \ {None}) \cup
  (IF call.op = "binstar_channel_alias" /\ call.exc = "" THEN {call.val} ELSE {})

RemoveBinstarTokens ==
  /\ pc = "ready"
  /\ \E url \in TokenUrls :
       call' = [Record("remove_binstar_tokens", L0) EXCEPT
                  !.str = url, !.val = remove_binstar_tokens(url)]
  /\ UNCHANGED <<Config, croot_exists, local_channel>>

HideBinstarTokens ==
  /\ pc = "ready"
  /\ \E url \in TokenUrls :
       call' = [Record("hide_binstar_tokens", L0) EXCEPT
                  !.str = url, !.val = hide_binstar_tokens(url)]
  /\ UNCHANGED <<Config, croot_exists, local_channel>>

GetAllowedChannels ==
  /\ pc = "ready"
  /\ LET r == get_allowed_channels(L0)
     IN /\ local_channel' = r.L.lc
        /\ call' = [Record("get_allowed_channels", r.L) EXCEPT
                      !.exc = r.exc, !.isNone = r.isNone, !.list = r.val]
  /\ UNCHANGED <<Config, croot_exists>>

\* the build directory is created or removed by another process
CrootChange ==
  /\ pc # "import_error"
  /\ croot_exists' = ~croot_exists
  /\ UNCHANGED <<Config, local_channel, call>>

Next ==
  \/ ImportAllowedChannels
  \/ ImportLoadCondarc
  \/ GetLocalUrls
  \/ NormalizeUrls
  \/ PrioritizeChannels
  \/ CanonicalChannelName
  \/ BinstarChannelAlias
  \/ RemoveBinstarTokens
  \/ HideBinstarTokens
  \/ GetAllowedChannels
  \/ CrootChange

\* ----- environments and arguments -----

MaxLen == 3
MaxLocalLen == 2

Lists(S, n) == UNION {[1..k -> S] : k \in 0..n}

Provider(state, domain, token) == [state |-> state, domain |-> domain, token |-> token]

Env(condarc, user, sys, conda_build, binstar) ==
  [CONDARC |-> condarc,
   user_isfile |-> user # NoneRc, user_file |-> user,
   sys_isfile |-> sys # NoneRc, sys_file |-> sys,
   conda_build |-> conda_build, binstar |-> binstar]

Channels(lst) == [EmptyRc EXCEPT !.has_channels = TRUE, !.channels = lst]

WithAlias(r, a) == [r EXCEPT !.has_channel_alias = TRUE, !.channel_alias = a]

WithAnacondaToken(r, b) == [r EXCEPT !.has_add_anaconda_token = TRUE, !.add_anaconda_token = b]

WithBinstarToken(r, b) == [r EXCEPT !.has_add_binstar_token = TRUE, !.add_binstar_token = b]

Policy(allow) == [EmptyRc EXCEPT !.has_allow_other_channels = TRUE, !.allow_other_channels = allow]

AnacondaProvider == Provider("ok", <<"h","t","t","p","s",":","/","/","a","p","i",".","a","n","a","c","o","n","d","a",".","o","r","g">>, <<"a","b","c","d">>)

Providers ==
  {Provider("not_installed", <<>>, None),
   Provider("raises", <<>>, None),
   AnacondaProvider,
   Provider("ok", <<"h","t","t","p","s",":","/","/","e","x",".","c","o","m">>, <<"T","k","-","<","9",">">>),
   Provider("ok", <<"h","t","t","p","s",":","/","/","a","p","i",".","a","n","a","c","o","n","d","a",".","o","r","g","/">>, None)}

FreeLinux == <<"h","t","t","p","s",":","/","/","r","e","p","o",".","c","o","n","t","i","n","u","u","m",".","i","o","/","p","k","g","s","/","f","r","e","e","/","l","i","n","u","x","-","6","4","/">>
ProNoarch == <<"h","t","t","p","s",":","/","/","r","e","p","o",".","c","o","n","t","i","n","u","u","m",".","i","o","/","p","k","g","s","/","p","r","o","/","n","o","a","r","c","h","/">>

\* all the functions, in a few environments
LocalUserFiles == {NoneRc, Channels(<<S_local, <<"c","h","a","n","B">>>>)}

LocalEnvs == {Env("unset", u, NoneRc, b, AnacondaProvider) : u \in LocalUserFiles, b \in BOOLEAN}

LocalChannels == {None, croot_url \o <<"/","l","i","n","u","x","-","6","4">>, <<"h","t","t","p",":","/","/","h","/","c">>}

Init == InitWith(LocalEnvs, Lists({S_local, S_defaults}, MaxLocalLen), LocalChannels)

Spec == Init /\ [][Next]_vars

\* the specifier expander: every specifier list over the symbolic names and a bare name
ExpandSettings ==
  {<<"unset", NoneRc>>, <<"path", NoneRc>>, <<"blank", Channels(<<<<"c","h","a","n","B">>>>)>>,
   <<"unset", Channels(<<<<"c","h","a","n","B">>, <<"f","i","l","e",":","/","/","/","p","k","g","s","/">>>>)>>,
   <<"unset", Channels(<<S_defaults, <<"h","t","t","p",":","/","/","h","/","c">>>>)>>,
   <<"unset", Channels(<<<<"c","h","a","n","B">>, S_system>>)>>}

ExpandEnvs == {Env(x[1], x[2], NoneRc, TRUE, AnacondaProvider) : x \in ExpandSettings}

Specifiers == {S_defaults, S_system, S_local, <<"c","h","a","n","A">>}

InitExpand == InitWith(ExpandEnvs, Lists(Specifiers, MaxLen), {None})

NextExpand ==
  \/ ImportAllowedChannels
  \/ ImportLoadCondarc
  \/ NormalizeUrls
  \/ CrootChange

SpecExpand == InitExpand /\ [][NextExpand]_vars

\* the policy gate: every system-level settings file
PolicyFiles ==
  {NoneRc, EmptyRc, Policy(TRUE), Policy(FALSE),
   [Policy(FALSE) EXCEPT !.has_channels = TRUE, !.channels = <<<<"c","h","a","n","P">>>>],
   [Policy(FALSE) EXCEPT !.has_default_channels = TRUE,
                         !.default_channels = <<<<"h","t","t","p",":","/","/","d","/","x","/">>>>],
   [Policy(FALSE) EXCEPT !.has_channels = TRUE, !.channels = <<S_defaults>>,
                         !.has_channel_alias = TRUE,
                         !.channel_alias = <<"h","t","t","p","s",":","/","/","e","x",".","c","o","m","/","t","/","a","b","c","d">>]}

PolicyEnvs ==
  {Env(c, u, p, TRUE, AnacondaProvider) :
     c \in {"unset", "blank", "path"}, u \in {NoneRc, Channels(<<<<"c","h","a","n","B">>>>)},
     p \in PolicyFiles}

InitPolicy == InitWith(PolicyEnvs, {<<S_defaults>>, <<S_system>>, <<S_default>>}, {None})

NextPolicy ==
  \/ ImportAllowedChannels
  \/ ImportLoadCondarc
  \/ NormalizeUrls
  \/ GetAllowedChannels

SpecPolicy == InitPolicy /\ [][NextPolicy]_vars

\* the priority assigner: every channel list over bare names and resolved URLs
ChannelArgs ==
  {<<"c","h","a","n","A">>, <<"c","h","a","n","A","/">>, <<"c","h","a","n","B">>, FreeLinux, ProNoarch, croot_url \o <<"/","n","o","a","r","c","h","/">>}

NamesEnvs == {Env("unset", NoneRc, NoneRc, TRUE, AnacondaProvider)}

InitNames == InitWith(NamesEnvs, Lists(ChannelArgs, MaxLen), {None})

NextNames ==
  \/ ImportAllowedChannels
  \/ ImportLoadCondarc
  \/ GetLocalUrls
  \/ PrioritizeChannels
  \/ CrootChange

SpecNames == InitNames /\ [][NextNames]_vars

\* the canonical name resolver: every kind of channel under every kind of alias
CanonAliases == {DEFAULT_CHANNEL_ALIAS, <<"h","t","t","p",":","/","/","h","/">>, <<"h","t","t","p",":">>, <<"h","t","t","p","s",":","/","/","e","x",".","c","o","m">>}

CanonEnvs ==
  {Env("unset", WithAlias(EmptyRc, a), NoneRc, b, AnacondaProvider) :
     a \in CanonAliases, b \in BOOLEAN}

CanonChannels ==
  {None, <<"c","h","a","n","A">>, <<"h","t","t","p","s",":","/","/","r","e","p","o",".","c","o","n","t","i","n","u","u","m",".","i","o","/","p","k","g","s","/","f","r","e","e">>,
   <<"h","t","t","p",":","/","/","r","e","p","o",".","c","o","n","t","i","n","u","u","m",".","i","o","/","p","k","g","s","/","f","r","e","e">>, croot_url, <<"h","t","t","p",":","/","/","f","i","l","e","r","/","x">>,
   <<"h","t","t","p","s",":","/","/","c","o","n","d","a",".","a","n","a","c","o","n","d","a",".","o","r","g","/","c","h","a","n","A">>, <<"h","t","t","p",":","/","/","c","o","n","d","a",".","a","n","a","c","o","n","d","a",".","o","r","g","/","c","h","a","n","A","/">>,
   <<"h","t","t","p",":","/","/","h","/","x">>, <<"h","t","t","p","s",":","/","/","h","/","x">>, <<"h","t","t","p",":","/","/","e","x",".","c","o","m","/","t","/","w","x","y","z","/","x">>,
   <<"h","t","t","p","s",":","/","/","c","o","n","d","a",".","a","n","a","c","o","n","d","a",".","o","r","g","/","t","/","w","x","y","z","/","c","h","a","n","A">>, <<"h","t","t","p",":","/">>, <<"h","t","t","p",":","/","/">>}

InitCanon == InitWith(CanonEnvs, {<<>>}, CanonChannels)

NextCanon ==
  \/ ImportAllowedChannels
  \/ ImportLoadCondarc
  \/ GetLocalUrls
  \/ CanonicalChannelName
  \/ CrootChange

SpecCanon == InitCanon /\ [][NextCanon]_vars

\* the token codec and the alias resolver: every kind of configured alias,
\* token setting and token provider
AliasValues ==
  {<<"h","t","t","p","s",":","/","/","c","o","n","d","a",".","a","n","a","c","o","n","d","a",".","o","r","g","/","t","/","a","b","c","d">>, <<"h","t","t","p","s",":","/","/","e","x",".","c","o","m","/">>,
   <<"h","t","t","p","s",":","/","/","e","x",".","c","o","m","/","t","/","a","b","c","d","/">>, <<"h","t","t","p","s",":","/","/","c","o","n","d","a",".","a","n","a","c","o","n","d","a",".","o","r","g","/","t","/","a","b","c","d","/","f","o","o">>,
   <<"f","i","l","e",":","/","/","/","a","l","/">>}

AliasFiles == {EmptyRc} \cup {WithAlias(EmptyRc, a) : a \in AliasValues}

TokenFiles(r) ==
  {r, WithAnacondaToken(r, FALSE), WithBinstarToken(r, FALSE),
   WithAnacondaToken(WithBinstarToken(r, FALSE), TRUE)}

AliasEnvs ==
  {Env("unset", u, NoneRc, TRUE, b) : u \in UNION {TokenFiles(r) : r \in AliasFiles}, b \in Providers}
  \cup {Env("blank", NoneRc, p, TRUE, b) : p \in {q \in PolicyFiles : q.has_channel_alias}, b \in Providers}

AliasChannels ==
  {<<"h","t","t","p","s",":","/","/","c","o","n","d","a",".","a","n","a","c","o","n","d","a",".","o","r","g","/","t","/","w","x","y","z","/","c","h","a","n","A">>, <<"h","t","t","p","s",":","/","/","o","t","h","e","r",".","o","r","g","/","t","/","w","x","y","z","/","c","h","a","n","A">>}

InitAlias == InitWith(AliasEnvs, {<<>>}, AliasChannels)

NextAlias ==
  \/ ImportAllowedChannels
  \/ ImportLoadCondarc
  \/ BinstarChannelAlias
  \/ RemoveBinstarTokens
  \/ HideBinstarTokens

SpecAlias == InitAlias /\ [][NextAlias]_vars

\* ----- properties -----

IsPrefix(a, b) == Len(a) <= Len(b) /\ SubSeq(b, 1, Len(a)) = a

SettingsChannels == IF rc.has_channels THEN rc.channels ELSE <<>>

\* C1: when a settings file exists and its channel list holds no "system", a
\* normalize_urls call on pre + ["system"] + post returns what it returns, from the
\* same state, on pre + settings channels + post (result, error and cache alike),
\* and the URLs of pre, then those of the settings channels, lead the result.
C1_SystemReplacedInPlace ==
  [][(/\ pc = "ready"
      /\ call'.op = "normalize_urls"
      /\ croot_exists' = croot_exists
      /\ rc_path # "None"
      /\ ~InList(S_system, SettingsChannels))
     => \A k \in 1..Len(call'.urls) :
          call'.urls[k] = S_system =>
            LET pre == SubSeq(call'.urls, 1, k - 1)
                post == SubSeq(call'.urls, k + 1, Len(call'.urls))
                r == normalize_urls(pre \o SettingsChannels \o post,
                                    call'.platform, call'.flag, L0)
                p == normalize_urls(pre, call'.platform, call'.flag, L0)
                ps == normalize_urls(pre \o SettingsChannels, call'.platform, call'.flag, L0)
            IN /\ call'.exc = r.exc
               /\ call'.list = r.newurls
               /\ local_channel' = r.L.lc
               /\ IsPrefix(p.newurls, ps.newurls)
               /\ IsPrefix(ps.newurls, call'.list)]_vars

C1_Witness ==
  /\ call.op = "normalize_urls"
  /\ call.exc = ""
  /\ rc_path # "None"
  /\ Len(SettingsChannels) = 2
  /\ ~InList(S_system, SettingsChannels)
  /\ Len(call.urls) = 3
  /\ call.urls[1] = <<"c","h","a","n","A">>
  /\ call.urls[2] = S_system
  /\ call.urls[3] = S_defaults
  /\ Len(call.list) = 10

RequestedOrProcessPlatform(platform) == IF platform = None THEN subdir ELSE platform

PlatformPair(u1, u2, plat) ==
  \E n \in 0..Len(u1) :
    /\ u1 = SubSeq(u1, 1, n) \o <<"/">> \o plat \o <<"/">>
    /\ u2 = SubSeq(u1, 1, n) \o <<"/">> \o S_noarch \o <<"/">>

\* the two URLs of each default base, one base after the other
RECURSIVE PairsOf(_, _)
PairsOf(bases, plat) ==
  IF bases = <<>> THEN <<>>
  ELSE <<rstrip(Head(bases), "/") \o <<"/">> \o plat \o <<"/">>,
         rstrip(Head(bases), "/") \o <<"/">> \o S_noarch \o <<"/">> >>
       \o PairsOf(Tail(bases), plat)

DefaultPairs(plat) ==
  PairsOf(IF sys_rc.has_default_channels THEN sys_rc.default_channels ELSE DEFAULT_URLS, plat)

\* C2: the result of normalize_urls is a sequence of adjacent pairs
\* "<base>/<platform>/", "<base>/noarch/" (the requested platform, or the process
\* platform when none is requested); for ["defaults"] it is the two pairs of the
\* two default bases, in their order.
C2_PlatformPairs ==
  (call.op = "normalize_urls" /\ call.exc = "") =>
    LET plat == RequestedOrProcessPlatform(call.platform)
    IN /\ Len(call.list) % 2 = 0
       /\ \A i \in 1..(Len(call.list) \div 2) :
            PlatformPair(call.list[2 * i - 1], call.list[2 * i], plat)
       /\ (call.urls = <<S_defaults>> /\ ~call.flag) => call.list = DefaultPairs(plat)

C2_Witness ==
  /\ call.op = "normalize_urls"
  /\ call.urls = <<S_defaults>>
  /\ call.platform = <<"w","i","n","-","3","2">>
  /\ Len(call.list) = 4

ChanA == <<"c","h","a","n","A">>
ChanB == <<"c","h","a","n","B">>

\* C3 (as claimed): prioritize_channels numbers the tiers from 0, so that
\* [chanA, chanA, chanB] gives one entry for chanA with tier 0 and one for chanB
\* with tier 1.
C3_TiersFromZero ==
  call.op = "prioritize_channels" =>
    /\ call.tab # <<>> => call.tab[1].priority = 0
    /\ call.urls = <<ChanA, ChanA, ChanB>> =>
         call.tab = <<[key |-> ChanA \o <<"/">>, label |-> ChanA, priority |-> 0],
                      [key |-> ChanB \o <<"/">>, label |-> ChanB, priority |-> 1]>>

\* C3 (amended): prioritize_channels numbers the tiers from 1, so that
\* [chanA, chanA, chanB] gives one entry for chanA with tier 1 and one for chanB
\* with tier 2.
C3_TiersFromOne ==
  call.op = "prioritize_channels" =>
    /\ call.tab # <<>> => call.tab[1].priority = 1
    /\ call.urls = <<ChanA, ChanA, ChanB>> =>
         call.tab = <<[key |-> ChanA \o <<"/">>, label |-> ChanA, priority |-> 1],
                      [key |-> ChanB \o <<"/">>, label |-> ChanB, priority |-> 2]>>

C3_Witness ==
  /\ call.op = "prioritize_channels"
  /\ call.urls = <<ChanA, ChanA, ChanB>>
  /\ Len(call.tab) = 2

SlashKey(u) == rstrip(u, "/") \o <<"/">>

\* the keys of a channel list in first-seen order, later duplicates dropped
RECURSIVE FirstSeen(_, _)
FirstSeen(channels, seen) ==
  IF channels = <<>> THEN seen
  ELSE FirstSeen(Tail(channels),
                 IF InList(SlashKey(Head(channels)), seen) THEN seen
                 ELSE Append(seen, SlashKey(Head(channels))))

\* C4: the table of prioritize_channels holds one entry per distinct
\* slash-normalized input, in first-seen order (a repeated input adds nothing),
\* and of two consecutive entries the later tier is the earlier tier plus 1 when
\* their labels differ and the earlier tier when they are the same.
C4_TierSteps ==
  call.op = "prioritize_channels" =>
    /\ [i \in 1..Len(call.tab) |-> call.tab[i].key] = FirstSeen(call.urls, <<>>)
    /\ \A i \in 1..(Len(call.tab) - 1) :
         call.tab[i + 1].priority =
           call.tab[i].priority + (IF call.tab[i + 1].label # call.tab[i].label THEN 1 ELSE 0)

C4_Witness ==
  /\ call.op = "prioritize_channels"
  /\ call.urls = <<FreeLinux, ChanA \o <<"/">>, ChanA>>
  /\ Len(call.tab) = 2
  /\ call.tab[2].priority = call.tab[1].priority + 1

C4_WitnessSameLabel ==
  /\ call.op = "prioritize_channels"
  /\ Len(call.urls) = 3
  /\ Len(call.tab) = 3
  /\ call.tab[1].label = call.tab[2].label
  /\ call.tab[2].label # call.tab[3].label

\* C5: canonical_channel_name returns for every input and every alias, an alias
\* with the http: scheme included: "<unknown>" for None, a string otherwise, after
\* at most one recursive call.
C5_TotalDepthOne ==
  call.op = "canonical_channel_name" =>
    /\ call.exc = ""
    /\ call.val # None
    /\ call.depth <= 1
    /\ call.str = None => call.val = S_unknown

C5_Witness ==
  /\ call.op = "canonical_channel_name"
  /\ startswith(channel_alias, S_http_slash)
  /\ startswith(call.str, S_http_slash)
  /\ call.depth = 1
  /\ call.val = call.str

WellFormedToken(t) ==
  /\ t # None
  /\ Len(t) >= MinTokenLen
  /\ \A i \in 1..Len(t) : t[i] \in TokenChars

\* C6: for the stored alias and a well-formed token, remove_binstar_tokens of the
\* alias with the token appended as binstar_channel_alias appends it is the alias.
C6_RoundTrip ==
  (/\ call.op = "remove_binstar_tokens"
   /\ WellFormedToken(env.binstar.token)
   /\ call.str = channel_alias \o S_t_slash \o env.binstar.token \o <<"/">>)
  => call.val = channel_alias

HasTokenSegment(s) == \E i \in 1..Len(s) : s[i] = "/" /\ TokenTail(s, i + 1) # 0

\* C7: after load_condarc the global channel_alias holds no "t/<token>/" segment.
C7_NoTokenAtRest == pc = "ready" => ~HasTokenSegment(channel_alias)

\* C8: get_allowed_channels returns None when there is no system settings file or
\* other channels are allowed; with a system settings file that forbids other
\* channels and has no channel list, it returns the URLs of the default channels.
C8_PolicyDefaults ==
  call.op = "get_allowed_channels" =>
    IF env.sys_isfile /\ sys_rc.has_allow_other_channels /\ ~sys_rc.allow_other_channels
    THEN ~sys_rc.has_channels
           => (call.exc = "" /\ ~call.isNone /\ call.list = DefaultPairs(subdir))
    ELSE call.exc = "" /\ call.isNone

TokenAttachmentPermitted ==
  IF rc.has_add_anaconda_token THEN rc.add_anaconda_token
  ELSE IF rc.has_add_binstar_token THEN rc.add_binstar_token
  ELSE TRUE

\* C9: binstar_channel_alias returns the alias unchanged and raises nothing when
\* tokens may be attached and the provider is not installed or raises; for an
\* alias of the file: scheme it returns the alias without turning to the provider.
C9_ProviderFailureAbsorbed ==
  call.op = "binstar_channel_alias" =>
    /\ (TokenAttachmentPermitted /\ env.binstar.state \in {"not_installed", "raises"})
         => (call.exc = "" /\ call.val = call.str)
    /\ startswith(call.str, S_file_scheme_slash)
         => (call.exc = "" /\ call.val = call.str /\ ~call.queried)

C9_Witness ==
  /\ call.op = "binstar_channel_alias"
  /\ TokenAttachmentPermitted
  /\ env.binstar.state = "raises"
  /\ ~startswith(call.str, S_file_scheme_slash)
  /\ call.queried
  /\ call.val = call.str

C9_WitnessFile ==
  /\ call.op = "binstar_channel_alias"
  /\ startswith(call.str, S_file_scheme_slash)
  /\ TokenAttachmentPermitted
  /\ env.binstar.state = "ok"

\* C10: once local_channel holds a URL it holds that one URL ever after, and a
\* call that finds the cache filled does not look for the build directory.
C10_CacheNeverExpires ==
  [][local_channel # <<>> =>
       /\ local_channel' = local_channel
       /\ Len(local_channel') = 1
       /\ croot_exists' = croot_exists => call'.checks = 0]_vars

C10_Witness ==
  /\ local_channel = <<croot_url>>
  /\ ~croot_exists
  /\ call.op = "get_local_urls"
  /\ call.flag
  /\ call.list = local_channel
  /\ call.checks = 0

====
